---- MODULE Spec2Model ----
\* Tool identity and dispatch of the Siri-shortcuts MCP server (src/shortcuts.ts):
\* the name sanitizer, the uniqueness resolver, the shortcut registry
\* (shortcutMap) and its refresh by listShortcuts.
\*
\* A JavaScript string is modelled as a sequence of one-character strings, so
\* that lower-casing, replacing, collapsing, stripping and truncating are
\* computed character by character as the regular expressions do.
EXTENDS Integers, Sequences, FiniteSets, TLC

VARIABLES
    fnName,                   \* pure-function harness: the name argument
    fnClaimed,                \* pure-function harness: the Set<string> argument
    fnResult,                 \* pure-function harness: the returned string
    fnPc,                     \* pure-function harness: "input" | "sanitized" | "generated"
    originalName,             \* generateUniqueSanitizedName: parameter (line 59)
    existingSanitizedNames,   \* generateUniqueSanitizedName: parameter (line 59)
    baseSanitized,            \* generateUniqueSanitizedName: local (line 60)
    uniqueSanitized,          \* generateUniqueSanitizedName: local (line 61)
    counter,                  \* generateUniqueSanitizedName: local (line 62)
    genPc,                    \* position in generateUniqueSanitizedName: "idle" | "loop" | "returned"
    genReturned,              \* the calls made so far: <<[token, counter]>>, oldest first
    shortcutMap,              \* the registry: insertion-ordered Map name -> token (line 56)
    listExec,                 \* `shortcuts list` subprocesses in flight, by who started them
    lastList,                 \* the latest successful listShortcuts: what it resolved with
    env,                      \* process.env: the two variables the server reads
    GENERATE_SHORTCUT_TOOLS,  \* configuration read from the environment (line 19)
    INJECT_SHORTCUT_LIST,     \* configuration read from the environment (line 20)
    now,                      \* the clock: what Date.now() returns
    tmpFiles,                 \* /tmp/shortcut-input-<stamp>: stamp -> content written
    runExec,                  \* `shortcuts run` / `shortcuts view` subprocesses in flight
    initState,                \* initializeShortcuts: "listing" | "initialized" | "caught" | "crashed"
    lastHandled,              \* the latest handler run to its await, return or throw
    requests                  \* the CallTool requests received, oldest first: where each
                              \* one is and how many outcomes it was answered with

vars == <<fnName, fnClaimed, fnResult, fnPc,
          originalName, existingSanitizedNames, baseSanitized, uniqueSanitized,
          counter, genPc, genReturned,
          shortcutMap, listExec, lastList,
          env, GENERATE_SHORTCUT_TOOLS, INJECT_SHORTCUT_LIST,
          now, tmpFiles, runExec, initState, lastHandled, requests>>

fnVars == <<fnName, fnClaimed, fnResult, fnPc>>
genVars == <<originalName, existingSanitizedNames, baseSanitized, uniqueSanitized,
             counter, genPc, genReturned>>
serverVars == <<shortcutMap, listExec, lastList>>
bridgeVars == <<now, tmpFiles, runExec>>
configVars == <<env, GENERATE_SHORTCUT_TOOLS, INJECT_SHORTCUT_LIST>>
callVars == <<configVars, now, tmpFiles, runExec, initState, lastHandled, requests>>

-----------------------------------------------------------------------------
\* Strings

LowerLetters == <<"a","b","c","d","e","f","g","h","i","j","k","l","m",
                  "n","o","p","q","r","s","t","u","v","w","x","y","z">>
UpperLetters == <<"A","B","C","D","E","F","G","H","I","J","K","L","M",
                  "N","O","P","Q","R","S","T","U","V","W","X","Y","Z">>
Digits == <<"0","1","2","3","4","5","6","7","8","9">>

Range(s) == {s[i] : i \in 1..Len(s)}

\* the character class [a-z0-9_] of line 215
AllowedChars == Range(LowerLetters) \cup Range(Digits) \cup {"_"}

Rep(c, n) == [i \in 1..n |-> c]

\* the element of a one-element set; {F(x) : x \in {e}} applies F to the value of e
The(S) == CHOOSE x \in S : TRUE

\* String.prototype.substring(0, n) for a string s: n < 0 counts as 0
Substring0(s, n) == SubSeq(s, 1, IF n < 0 THEN 0 ELSE IF n > Len(s) THEN Len(s) ELSE n)

\* Number -> decimal text, as a template literal formats a small integer
RECURSIVE NumberToString(_)
NumberToString(n) ==
    IF n < 10 THEN <<Digits[n + 1]>>
    ELSE NumberToString(n \div 10) \o <<Digits[(n % 10) + 1]>>

\* All sequences over S of length at most n
RECURSIVE SeqsUpTo(_, _)
SeqsUpTo(S, n) ==
    IF n = 0 THEN {<<>>}
    ELSE LET shorter == SeqsUpTo(S, n - 1)
         IN  shorter \cup {Append(s, c) : s \in shorter, c \in S}

-----------------------------------------------------------------------------
\* sanitizeShortcutName (lines 208-227)

prefix == <<"r","u","n","_","s","h","o","r","t","c","u","t","_">>
maxToolNameLength == 64
maxSanitizedLength == maxToolNameLength - Len(prefix)

UpperChars == Range(UpperLetters)

ToLowerChar(c) ==
    IF c \in UpperChars
    THEN LowerLetters[CHOOSE i \in 1..Len(UpperLetters) : UpperLetters[i] = c]
    ELSE c

\* .toLowerCase()
toLowerCase(s) == [i \in 1..Len(s) |-> ToLowerChar(s[i])]

\* faulty variant: only blanks are replaced
ReplaceBlanksOnly(s) == [i \in 1..Len(s) |-> IF s[i] = " " THEN "_" ELSE s[i]]

\* .replace(/[^a-z0-9_]/g, "_")
ReplaceDisallowed(s) == [i \in 1..Len(s) |-> IF s[i] \in AllowedChars THEN s[i] ELSE "_"]

\* .replace(/_+/g, "_"): of every run of underscores the first one is kept
CollapseUnderscores(s) ==
    LET marked == [i \in 1..Len(s) |->
                     [char |-> s[i], dropped |-> i > 1 /\ s[i] = "_" /\ s[i - 1] = "_"]]
        kept == SelectSeq(marked, LAMBDA m : ~m.dropped)
    IN  [i \in 1..Len(kept) |-> kept[i].char]

\* .replace(/_$/, "")
StripTrailingUnderscore(s) ==
    IF Len(s) > 0 /\ s[Len(s)] = "_" THEN SubSeq(s, 1, Len(s) - 1) ELSE s

\* faulty variant: only the leading underscore is removed
StripLeadingOnly(s) == IF Len(s) > 0 /\ s[1] = "_" THEN Tail(s) ELSE s

\* .replace(/^_|_$/g, ""): one match at the start, one at the end
StripEnds(s) ==
    StripTrailingUnderscore(IF Len(s) > 0 /\ s[1] = "_" THEN Tail(s) ELSE s)

\* lines 213-217: the chain of calls, each stage applied to the value of the
\* stage before it
Normalize(name) ==
    The({StripEnds(collapsed) :
            collapsed \in {CollapseUnderscores(replaced) :
                replaced \in {ReplaceDisallowed(lowered) :
                    lowered \in {toLowerCase(name)}}}})

\* faulty variant: the cut is made at the tool-name limit, the prefix forgotten
TruncateToToolLimit(sanitized) ==
    IF Len(sanitized) > maxToolNameLength
    THEN StripTrailingUnderscore(Substring0(sanitized, maxToolNameLength))
    ELSE sanitized

\* faulty variant: the cut is one character short of the budget
TruncateOneShort(sanitized) ==
    IF Len(sanitized) > maxSanitizedLength
    THEN StripTrailingUnderscore(Substring0(sanitized, maxSanitizedLength - 1))
    ELSE sanitized

\* faulty variant: an underscore left at the end by the cut stays
TruncateKeepsUnderscore(sanitized) ==
    IF Len(sanitized) > maxSanitizedLength
    THEN Substring0(sanitized, maxSanitizedLength)
    ELSE sanitized

\* lines 220-224
Truncate(sanitized) ==
    IF Len(sanitized) > maxSanitizedLength
    THEN StripTrailingUnderscore(Substring0(sanitized, maxSanitizedLength))
    ELSE sanitized

sanitizeShortcutName(name) == The({Truncate(sanitized) : sanitized \in {Normalize(name)}})

-----------------------------------------------------------------------------
\* generateUniqueSanitizedName (lines 59-80)

\* line 66: `_${counter}`
Suffix(k) == <<"_">> \o NumberToString(k)

\* line 67
maxLength == 64 - Len(prefix)

\* faulty variant: the room for the suffix is computed once, for "_1", and reused
CandidateCachedTruncation(base, k) ==
    IF Len(base) + Len(Suffix(k)) > maxLength
    THEN Substring0(base, maxLength - Len(Suffix(1))) \o Suffix(k)
    ELSE base \o Suffix(k)

\* faulty variant: base + suffix is cut as a whole, which cuts the suffix off again
CandidateTruncateWhole(base, k) == Substring0(base \o Suffix(k), maxLength)

\* lines 66-75: the candidate the loop body builds for the counter value k
Candidate(base, k) ==
    IF Len(base) + Len(Suffix(k)) > maxLength
    THEN Substring0(base, maxLength - Len(Suffix(k))) \o Suffix(k)
    ELSE base \o Suffix(k)

\* lines 65-77: the while loop, from the state (uniqueSanitized, counter)
RECURSIVE GenLoop(_, _, _, _)
GenLoop(base, unique, k, existing) ==
    IF unique \in existing
    THEN GenLoop(base, Candidate(base, k), k + 1, existing)
    ELSE unique

\* faulty variant: `if` instead of `while`, a single retry
GenerateSingleRetry(name, existing) ==
    The({IF base \in existing THEN Candidate(base, 1) ELSE base :
            base \in {sanitizeShortcutName(name)}})

\* faulty variant: the counter starts at 0
GenerateCounterFromZero(name, existing) ==
    The({GenLoop(base, base, 0, existing) : base \in {sanitizeShortcutName(name)}})

\* lines 60-62, then the loop
generateUniqueSanitizedName(name, existing) ==
    The({GenLoop(base, base, 1, existing) : base \in {sanitizeShortcutName(name)}})

-----------------------------------------------------------------------------
\* The registry and listShortcuts (lines 56, 85-121)

\* stdout of `shortcuts list`: every catalog line followed by a newline
RECURSIVE JoinLines(_, _)
JoinLines(lines, i) ==
    IF i > Len(lines) THEN <<>>
    ELSE lines[i] \o <<"\n">> \o JoinLines(lines, i + 1)

\* stdout.split("\n"): the pieces between newlines, the one before the first
\* and the one after the last newline included
SplitLines(text) ==
    LET newlines == {i \in 1..Len(text) : text[i] = "\n"}
        \* place of the k-th newline; 0 before the first, Len + 1 after the last
        At(k) == IF k = 0 THEN 0
                 ELSE IF k > Cardinality(newlines) THEN Len(text) + 1
                 ELSE CHOOSE i \in newlines : Cardinality({j \in newlines : j <= i}) = k
    IN  [k \in 1..(Cardinality(newlines) + 1) |-> SubSeq(text, At(k - 1) + 1, At(k) - 1)]

WhiteSpace == {" ", "\t", "\r"}

\* String.prototype.trim()
Trim(line) ==
    IF \A i \in 1..Len(line) : line[i] \in WhiteSpace THEN <<>>
    ELSE SubSeq(line,
                CHOOSE i \in 1..Len(line) :
                    /\ line[i] \notin WhiteSpace
                    /\ \A j \in 1..(i - 1) : line[j] \in WhiteSpace,
                CHOOSE i \in 1..Len(line) :
                    /\ line[i] \notin WhiteSpace
                    /\ \A j \in (i + 1)..Len(line) : line[j] \in WhiteSpace)

\* lines 106-109: split, drop the blank lines, trim
ParseShortcuts(stdout) ==
    The({[i \in 1..Len(kept) |-> [name |-> Trim(kept[i])]] :
            kept \in {SelectSeq(SplitLines(stdout), LAMBDA line : Len(Trim(line)) > 0)}})

\* Map.prototype.set: an existing key keeps its place, a new key goes last
MapSet(map, name, token) ==
    IF \E i \in 1..Len(map) : map[i].name = name
    THEN [i \in 1..Len(map) |->
            IF map[i].name = name THEN [name |-> name, token |-> token] ELSE map[i]]
    ELSE Append(map, [name |-> name, token |-> token])

MapKeys(map) == {map[i].name : i \in 1..Len(map)}
MapValues(map) == {map[i].token : i \in 1..Len(map)}
MapGet(map, name) == map[CHOOSE i \in 1..Len(map) : map[i].name = name].token

\* lines 113-117: the forEach, from the i-th shortcut on
RECURSIVE UpdateFrom(_, _, _, _)
UpdateFrom(map, existingNames, shortcuts, i) ==
    IF i > Len(shortcuts) THEN map
    ELSE The({UpdateFrom(MapSet(map, shortcuts[i].name, uniqueSanitizedName),
                         existingNames \cup {uniqueSanitizedName}, shortcuts, i + 1) :
                 uniqueSanitizedName \in
                     {generateUniqueSanitizedName(shortcuts[i].name, existingNames)}})

\* faulty variant: the turn ends after the first assignment, the rest is left
\* for a later turn
UpdateFirstOnly(map, shortcuts) == UpdateFrom(map, {}, SubSeq(shortcuts, 1, 1), 1)

\* the display label of a name printed as "Label (ID)": what stands before the
\* last " ("
Label(name) ==
    LET opens == {i \in 1..(Len(name) - 1) : name[i] = " " /\ name[i + 1] = "("}
    IN  IF Len(name) > 0 /\ name[Len(name)] = ")" /\ opens # {}
        THEN SubSeq(name, 1, (CHOOSE i \in opens : \A j \in opens : j <= i) - 1)
        ELSE name

\* faulty variant: the token is made from the display label, the identifier in
\* parentheses left out (the key of the map is the whole name)
RECURSIVE UpdateFromLabel(_, _, _, _)
UpdateFromLabel(map, existingNames, shortcuts, i) ==
    IF i > Len(shortcuts) THEN map
    ELSE The({UpdateFromLabel(MapSet(map, shortcuts[i].name, uniqueSanitizedName),
                              existingNames \cup {uniqueSanitizedName}, shortcuts, i + 1) :
                 uniqueSanitizedName \in
                     {generateUniqueSanitizedName(Label(shortcuts[i].name), existingNames)}})

UpdateByLabel(map, shortcuts) == UpdateFromLabel(map, {}, shortcuts, 1)

\* faulty variant: the set of claimed tokens starts from the tokens of the
\* entries that this listing does not name
UpdateSeededFromStale(map, shortcuts) ==
    UpdateFrom(map,
               {map[i].token : i \in {j \in 1..Len(map) :
                                         \A k \in 1..Len(shortcuts) :
                                             shortcuts[k].name # map[j].name}},
               shortcuts, 1)

\* faulty variant: the set of claimed tokens starts from the tokens already in the map
UpdateSeededFromMap(map, shortcuts) == UpdateFrom(map, MapValues(map), shortcuts, 1)

\* lines 111-117: the map is updated in place from a new, empty Set of tokens
UpdateShortcutMap(map, shortcuts) == UpdateFrom(map, {}, shortcuts, 1)

\* lines 376-378: Array.from(shortcutMap.entries()).find(([_, value]) => value === sanitizedName)?.[0]
\* (NotFound stands for undefined)
NotFound == <<"undefined">>
\* faulty variant: an entry matches when the name asked for starts with its token
FindByTokenStart(map, sanitizedName) ==
    IF \E i \in 1..Len(map) :
          SubSeq(sanitizedName, 1, Len(map[i].token)) = map[i].token
    THEN map[CHOOSE i \in 1..Len(map) :
                /\ SubSeq(sanitizedName, 1, Len(map[i].token)) = map[i].token
                /\ \A j \in 1..(i - 1) :
                      SubSeq(sanitizedName, 1, Len(map[j].token)) # map[j].token].name
    ELSE NotFound

FindByToken(map, sanitizedName) ==
    IF \E i \in 1..Len(map) : map[i].token = sanitizedName
    THEN map[CHOOSE i \in 1..Len(map) :
                /\ map[i].token = sanitizedName
                /\ \A j \in 1..(i - 1) : map[j].token # sanitizedName].name
    ELSE NotFound

-----------------------------------------------------------------------------
\* Tools, errors and the execution bridge (lines 46-50, 124-205, 255-314)

\* enum ToolName (lines 46-50)
LIST_SHORTCUTS == <<"l","i","s","t","_","s","h","o","r","t","c","u","t","s">>
OPEN_SHORTCUT == <<"o","p","e","n","_","s","h","o","r","t","c","u","t">>
RUN_SHORTCUT == <<"r","u","n","_","s","h","o","r","t","c","u","t">>

\* a key that arguments does not hold, a parameter that was not passed, an
\* environment variable that is not set
undefined == NotFound

\* the string literals of lines 19 and 20
FalseText == <<"f","a","l","s","e">>
TrueText == <<"t","r","u","e">>

\* process.env, as far as the server reads it
ProcessEnv(generate, inject) ==
    [GENERATE_SHORTCUT_TOOLS |-> generate, INJECT_SHORTCUT_LIST |-> inject]

\* faulty variant: dynamic tools are generated only on request
GenerateOnlyWhenTrue(processEnv) == processEnv.GENERATE_SHORTCUT_TOOLS = TrueText

\* line 19: process.env.GENERATE_SHORTCUT_TOOLS !== "false"
GenerateShortcutToolsFrom(processEnv) == processEnv.GENERATE_SHORTCUT_TOOLS # FalseText

\* faulty variant: the list is injected unless it is switched off
InjectUnlessFalse(processEnv) == processEnv.INJECT_SHORTCUT_LIST # FalseText

\* line 20: process.env.INJECT_SHORTCUT_LIST === "true"
InjectShortcutListFrom(processEnv) == processEnv.INJECT_SHORTCUT_LIST = TrueText

\* lines 18-20: the module is loaded in the environment processEnv
Configured(processEnv) ==
    /\ env = processEnv
    /\ GENERATE_SHORTCUT_TOOLS = GenerateShortcutToolsFrom(processEnv)
    /\ INJECT_SHORTCUT_LIST = InjectShortcutListFrom(processEnv)

\* String.prototype.startsWith
startsWith(s, p) == Len(s) >= Len(p) /\ SubSeq(s, 1, Len(p)) = p

\* String.prototype.includes, for a pattern of one character
includes(s, c) == \E i \in 1..Len(s) : s[i] = c

\* String.prototype.replace(pattern, "") with a string pattern: the first
\* occurrence of the pattern is cut out
RemoveFirst(s, pattern) ==
    LET at == {i \in 1..(Len(s) - Len(pattern) + 1) :
                  SubSeq(s, i, i + Len(pattern) - 1) = pattern}
    IN  IF at = {} THEN s
        ELSE LET first == CHOOSE i \in at : \A j \in at : i <= j
             IN  SubSeq(s, 1, first - 1) \o SubSeq(s, first + Len(pattern), Len(s))

\* String(value), for the strings that the requests of this model carry
String(value) == value

\* args.name, args.input: the value of a key, undefined when the key is missing
Get(args, key) == IF key \in DOMAIN args THEN args[key] ELSE undefined

\* An error is a record: mcp tells an McpError from any other exception, code
\* is the ErrorCode member, message is <<the literal text, the text put in>>.
NoError == [mcp |-> FALSE, code |-> "none", message |-> <<"", <<>>>>]
McpError(code, message) == [mcp |-> TRUE, code |-> code, message |-> message]
Error(message) == [mcp |-> FALSE, code |-> "Error", message |-> message]

\* faulty variant: every error is wrapped, a structured one too
RethrowWrapped(error) == McpError("InternalError", error.message)

\* lines 409-417: the catch of the CallTool handler
Rethrow(error) ==
    IF error.mcp THEN error ELSE McpError("InternalError", error.message)

\* what exists on the file system (fs.existsSync, line 161)
SlashX == <<"/","x">>
ExistingPaths == {SlashX}
existsSync(path) == path \in ExistingPaths

\* what fs.writeFileSync throws when the write fails (line 172)
WriteFailed == Error(<<"ENOSPC: no space left on device, write", <<>>>>)

\* a subprocess started by exec: its command, the shortcut named, and where
\* its --input-path points (a temporary file by its stamp, or the path given)
Process(cmd, name, tmp, stamp, path, input) ==
    [cmd |-> cmd, name |-> name, tmp |-> tmp, stamp |-> stamp, path |-> path,
     input |-> input]

\* faulty variant: a path that does not exist is handed to the command as it is
runShortcutUnchecked(params, clock, files, writeOk) ==
    LET input == IF params.input \in {undefined, <<>>} THEN <<" ">> ELSE params.input
    IN  IF includes(input, "/")
        THEN [thrown |-> NoError,
              started |-> <<Process("run", params.name, FALSE, 0, input, input)>>,
              files |-> files]
        ELSE IF ~writeOk
             THEN [thrown |-> WriteFailed, started |-> <<>>, files |-> files]
             ELSE [thrown |-> NoError,
                   started |-> <<Process("run", params.name, TRUE, clock, <<>>, input)>>,
                   files |-> (clock :> input) @@ files]

\* lines 153-181: the Promise executor of runShortcut, up to and with exec.
\* What it throws rejects the promise; started holds the subprocess, if any;
\* files is /tmp after it.
runShortcut(params, clock, files, writeOk) ==
    LET input == IF params.input \in {undefined, <<>>} THEN <<" ">> ELSE params.input
    IN  IF includes(input, "/")
        THEN IF ~existsSync(input)
             THEN [thrown |-> McpError("InvalidParams",
                                       <<"Input file does not exist: ", input>>),
                   started |-> <<>>,
                   files |-> files]
             ELSE [thrown |-> NoError,
                   started |-> <<Process("run", params.name, FALSE, 0, input, input)>>,
                   files |-> files]
        ELSE IF ~writeOk
             THEN [thrown |-> WriteFailed, started |-> <<>>, files |-> files]
             ELSE [thrown |-> NoError,
                   started |-> <<Process("run", params.name, TRUE, clock, <<>>, input)>>,
                   files |-> (clock :> input) @@ files]

\* lines 125-127: openShortcut, up to and with exec
openShortcut(params) == Process("view", params.name, FALSE, 0, <<>>, <<>>)

\* what the callback of exec is called with: error (null or an Error with a
\* message), stdout, stderr
ExecOutcome(failed, message, stdout, stderr) ==
    [failed |-> failed, message |-> message, stdout |-> stdout, stderr |-> stderr]

\* results of the tools, by what they hold
NoResult == [kind |-> "none", text |-> <<>>]
Awaiting == [kind |-> "awaiting", text |-> <<>>]

\* faulty variant: an error of the command is logged and the promise is left
\* pending
runShortcutCallbackSilent(process, outcome) ==
    IF outcome.failed
    THEN [thrown |-> NoError, result |-> NoResult]
    ELSE IF Len(Trim(outcome.stdout)) > 0
         THEN [thrown |-> NoError,
               result |-> [kind |-> "output", text |-> Trim(outcome.stdout)]]
         ELSE [thrown |-> NoError,
               result |-> [kind |-> "message", text |-> process.name]]

\* lines 187-202: the callback of exec in runShortcut
runShortcutCallback(process, outcome) ==
    IF outcome.failed
    THEN [thrown |-> McpError("InternalError",
                              <<"Failed to run shortcut: ", outcome.message>>),
          result |-> NoResult]
    ELSE IF Len(Trim(outcome.stdout)) > 0
         THEN [thrown |-> NoError,
               result |-> [kind |-> "output", text |-> Trim(outcome.stdout)]]
         ELSE [thrown |-> NoError,
               result |-> [kind |-> "message", text |-> process.name]]

\* lines 128-146: the callback of exec in openShortcut
openShortcutCallback(process, outcome) ==
    IF outcome.failed
    THEN [thrown |-> McpError("InternalError",
                              <<"Failed to open shortcut: ", outcome.message>>),
          result |-> NoResult]
    ELSE IF Len(outcome.stderr) > 0
         THEN [thrown |-> McpError("InternalError",
                                   <<"Error opening shortcut: ", outcome.stderr>>),
               result |-> NoResult]
         ELSE [thrown |-> NoError,
               result |-> [kind |-> "message", text |-> process.name]]

\* lines 88-105, 118: what the callback of exec in listShortcuts settles the
\* promise with
listShortcutsCallback(outcome) ==
    IF outcome.failed
    THEN [thrown |-> McpError("InternalError",
                              <<"Failed to list shortcuts: ", outcome.message>>),
          result |-> NoResult]
    ELSE IF Len(outcome.stderr) > 0
         THEN [thrown |-> McpError("InternalError",
                                   <<"Error listing shortcuts: ", outcome.stderr>>),
               result |-> NoResult]
         ELSE [thrown |-> NoError, result |-> [kind |-> "shortcuts", text |-> <<>>]]

\* the descriptions of lines 256, 269 and 275
RunDescription ==
    <<"R","u","n"," ","a"," ","s","h","o","r","t","c","u","t"," ","w","i","t",
      "h"," ","o","p","t","i","o","n","a","l"," ","i","n","p","u","t"," ","a",
      "n","d"," ","o","u","t","p","u","t"," ","p","a","r","a","m","e","t","e",
      "r","s">>
ListDescription ==
    <<"L","i","s","t"," ","a","l","l"," ","a","v","a","i","l","a","b","l","e",
      " ","S","i","r","i"," ","s","h","o","r","t","c","u","t","s">>
OpenDescription ==
    <<"O","p","e","n"," ","a"," ","s","h","o","r","t","c","u","t"," ","i","n",
      " ","t","h","e"," ","S","h","o","r","t","c","u","t","s"," ","a","p",
      "p">>

\* line 263: `\n\nAvailable shortcuts:\n`
AvailableHeader ==
    <<"\n","\n","A","v","a","i","l","a","b","l","e"," ","s","h","o","r","t",
      "c","u","t","s",":","\n">>

\* Array.prototype.join(separator), from the i-th element on
RECURSIVE Join(_, _, _)
Join(items, separator, i) ==
    IF i > Len(items) THEN <<>>
    ELSE IF i = Len(items) THEN items[i]
    ELSE items[i] \o separator \o Join(items, separator, i + 1)

\* lines 260-262: the keys of the map, each as `- "${name}"`, joined by newlines
ShortcutList(map) ==
    Join([i \in 1..Len(map) |-> <<"-"," ","\"">> \o map[i].name \o <<"\"">>], <<"\n">>, 1)

\* a tool: its name, its description, and the shortcut its run function is
\* bound to
Tool(name, description, shortcut) ==
    [name |-> name, description |-> description, shortcut |-> shortcut]

\* faulty variant: the size of the map is not tested before the list is added
getBaseToolsAlwaysInject ==
    <<Tool(LIST_SHORTCUTS, ListDescription, undefined),
      Tool(OPEN_SHORTCUT, OpenDescription, undefined),
      Tool(RUN_SHORTCUT,
           IF INJECT_SHORTCUT_LIST
           THEN RunDescription \o AvailableHeader \o ShortcutList(shortcutMap)
           ELSE RunDescription,
           undefined)>>

\* lines 255-286: the three base tools
getBaseTools ==
    <<Tool(LIST_SHORTCUTS, ListDescription, undefined),
      Tool(OPEN_SHORTCUT, OpenDescription, undefined),
      Tool(RUN_SHORTCUT,
           IF INJECT_SHORTCUT_LIST /\ Len(shortcutMap) > 0
           THEN RunDescription \o AvailableHeader \o ShortcutList(shortcutMap)
           ELSE RunDescription,
           undefined)>>

\* line 297: `Run the "${shortcutName}" shortcut`
DynamicDescription(shortcutName) ==
    <<"R","u","n"," ","t","h","e"," ","\"">> \o shortcutName
        \o <<"\""," ","s","h","o","r","t","c","u","t">>

\* faulty variant: one tool per token, a second entry with the same token is skipped
getDynamicToolsByToken(map) ==
    LET firsts == SelectSeq([i \in 1..Len(map) |-> [at |-> i, entry |-> map[i]]],
                            LAMBDA e : \A j \in 1..(e.at - 1) : map[j].token # e.entry.token)
    IN  [i \in 1..Len(firsts) |->
            Tool(prefix \o firsts[i].entry.token,
                 DynamicDescription(firsts[i].entry.name),
                 firsts[i].entry.name)]

\* lines 289-314: shortcutMap.forEach, one tool per entry
getDynamicShortcutTools(map) ==
    [i \in 1..Len(map) |->
        Tool(prefix \o map[i].token, DynamicDescription(map[i].name), map[i].name)]

\* the parameters runShortcut was called with, if it was called
NoInvoke == [called |-> FALSE, name |-> <<>>, input |-> <<>>]
Invoke(params) == [called |-> TRUE, name |-> params.name, input |-> params.input]

\* a handler that ran: which one, for which tool, the error that left it, the
\* call of runShortcut it made, the tools or the result it returned
Handled(handler, name, thrown, invoked, tools, result) ==
    [handler |-> handler, name |-> name, thrown |-> thrown, invoked |-> invoked,
     tools |-> tools, result |-> result]

NoHandled == Handled("none", <<>>, NoError, NoInvoke, <<>>, NoResult)

-----------------------------------------------------------------------------
\* Inputs of the pure-function checks

MaxShortLen == 3      \* every string over SanChars up to this length
MaxAffix == 2         \* length of what follows the long run of a long name
LongSlack == 2        \* long runs are within this distance of the budget

SanChars == {"a", "Z", "7", "_", "@", " "}

MyShortcut == <<"M","y"," ","S","h","o","r","t","c","u","t">>
HelloWorldTest == <<"h","e","l","l","o","@","w","o","r","l","d","#","t","e","s","t">>
Punctuation == <<"@","#","$","%">>

ShortNames == SeqsUpTo(SanChars, MaxShortLen)

LongNames ==
    {pre \o Rep("a", n) \o post :
        pre \in SeqsUpTo(SanChars, 1),
        n \in (maxSanitizedLength - LongSlack)..(maxSanitizedLength + LongSlack),
        post \in SeqsUpTo(SanChars, MaxAffix)}

ScenarioNames ==
    {MyShortcut, HelloWorldTest, Punctuation, Rep("a", 60),
     Rep("a", 50) \o <<"_","t","e","s","t">>, Rep("a", 100)}

SanitizeInputs == ShortNames \cup LongNames \cup ScenarioNames

GenIdle ==
    /\ originalName = <<>>
    /\ existingSanitizedNames = {}
    /\ baseSanitized = <<>>
    /\ uniqueSanitized = <<>>
    /\ counter = 1
    /\ genPc = "idle"
    /\ genReturned = <<>>

NoFiles == [stamp \in {} |-> <<>>]

CallIdle ==
    /\ Configured(ProcessEnv(undefined, undefined))
    /\ now = 0
    /\ tmpFiles = NoFiles
    /\ runExec = <<>>
    /\ lastHandled = NoHandled
    /\ requests = <<>>

ServerIdle ==
    /\ shortcutMap = <<>>
    /\ listExec = [init |-> 0, call |-> 0]
    /\ lastList = [refreshed |-> FALSE, shortcuts |-> <<>>, repeated |-> FALSE]
    /\ initState = "initialized"
    /\ CallIdle

FnIdle ==
    /\ fnName = <<>>
    /\ fnClaimed = {}
    /\ fnResult = <<>>
    /\ fnPc = "input"

-----------------------------------------------------------------------------
\* SpecSanitize: sanitizeShortcutName applied to every input of SanitizeInputs

InitSanitize ==
    /\ fnName \in SanitizeInputs
    /\ fnClaimed = {}
    /\ fnResult = <<>>
    /\ fnPc = "input"
    /\ GenIdle
    /\ ServerIdle

ApplySanitize ==
    /\ fnPc = "input"
    /\ fnResult' = sanitizeShortcutName(fnName)
    /\ fnPc' = "sanitized"
    /\ UNCHANGED <<fnName, fnClaimed, genVars, serverVars, callVars>>

NextSanitize == ApplySanitize

SpecSanitize == InitSanitize /\ [][NextSanitize]_vars

\* the characters a tool token may hold, written out: a-z, 0-9 and "_"
TokenChars ==
    {"a","b","c","d","e","f","g","h","i","j","k","l","m","n","o","p","q","r","s",
     "t","u","v","w","x","y","z","0","1","2","3","4","5","6","7","8","9","_"}

\* C1: for every input string s, sanitizeShortcutName(s) contains only
\* characters of [a-z0-9_], neither starts nor ends with an underscore, and has
\* no two consecutive underscores.
C1_SanitizedShape ==
    fnPc = "sanitized" =>
        /\ Range(fnResult) \subseteq TokenChars
        /\ Len(fnResult) > 0 => fnResult[1] # "_" /\ fnResult[Len(fnResult)] # "_"
        /\ \A i \in 1..(Len(fnResult) - 1) : ~(fnResult[i] = "_" /\ fnResult[i + 1] = "_")

\* a long name that starts with a disallowed character, holds an upper-case
\* letter and ends in punctuation has been sanitized to a non-empty token
C1_Witness ==
    /\ fnPc = "sanitized"
    /\ Len(fnName) > maxSanitizedLength
    /\ fnName[1] = "@"
    /\ fnName[Len(fnName)] = " "
    /\ "Z" \in Range(fnName)
    /\ Len(fnResult) > 0

\* C2: for every input string s, sanitizeShortcutName(s) has at most 51
\* characters, so "run_shortcut_" followed by it has at most 64.
C2_SanitizedLength ==
    fnPc = "sanitized" =>
        /\ Len(fnResult) <= 51
        /\ Len(prefix \o fnResult) <= 64

\* "a" * 60 has been cut to 51 characters, and the tool name has exactly 64
C2_Witness ==
    /\ fnPc = "sanitized"
    /\ fnName = Rep("a", 60)
    /\ Len(fnResult) = 51
    /\ Len(prefix \o fnResult) = 64

\* C25: when the normalized form of a name (lower-cased, replaced, collapsed,
\* stripped) has more than 51 characters, sanitizeShortcutName returns its
\* first 51 characters, without the last of them when that is an underscore:
\* a prefix of the normalized form of 50 or 51 characters. A normalized form of
\* at most 51 characters is returned as it is.
C25_TruncatedPrefix ==
    fnPc = "sanitized" =>
        \E normalized \in {Normalize(fnName)} :
            IF Len(normalized) > 51
            THEN /\ fnResult = IF normalized[51] = "_"
                               THEN SubSeq(normalized, 1, 50)
                               ELSE SubSeq(normalized, 1, 51)
                 /\ Len(fnResult) \in {50, 51}
                 /\ fnResult = SubSeq(normalized, 1, Len(fnResult))
            ELSE fnResult = normalized

\* "a" * 50 + "@a" is normalized to 52 characters with the underscore as the
\* 51st: the result is "a" * 50
C25_Witness ==
    /\ fnPc = "sanitized"
    /\ fnName = Rep("a", 50) \o <<"@","a">>
    /\ fnResult = Rep("a", 50)

\* C28: sanitizing is idempotent: for every input string s,
\* sanitizeShortcutName(sanitizeShortcutName(s)) = sanitizeShortcutName(s).
C28_Idempotent == fnPc = "sanitized" => sanitizeShortcutName(fnResult) = fnResult

\* "hello@world#test" was sanitized to "hello_world_test", which differs from it
C28_Witness ==
    /\ fnPc = "sanitized"
    /\ fnName = HelloWorldTest
    /\ fnResult = <<"h","e","l","l","o","_","w","o","r","l","d","_","t","e","s","t">>
    /\ fnResult # fnName

-----------------------------------------------------------------------------
\* SpecUnique: generateUniqueSanitizedName applied to a name and a claimed set

MaxPool == 10         \* claimed sets are drawn from the candidates up to this counter
DeepChain == 99       \* one claimed set holds every candidate up to this counter

MyShortcutToken == <<"m","y","_","s","h","o","r","t","c","u","t">>
UnderscoreAtCut == Rep("A", 48) \o <<"@","b","b">>

\* the names tried, each with the token it sanitizes to when nothing is claimed
UniqueCases ==
    {[name |-> MyShortcut, base |-> MyShortcutToken],
     [name |-> Punctuation, base |-> <<>>],
     [name |-> Rep("a", 60), base |-> Rep("a", 51)],
     [name |-> UnderscoreAtCut, base |-> Rep("a", 48) \o <<"_","b","b">>]}

Min(a, b) == IF a < b THEN a ELSE b

\* the token of at most 51 characters that ends in suf and starts as b does
Fit(b, suf) == SubSeq(b, 1, Min(Len(b), 51 - Len(suf))) \o suf

Pool(b, n) == {b} \cup {Fit(b, Suffix(k)) : k \in 1..n}

ClaimedSets(b) == (SUBSET Pool(b, MaxPool)) \cup {Pool(b, DeepChain)}

InitUnique ==
    /\ \E c \in UniqueCases :
          /\ fnName = c.name
          /\ fnClaimed \in ClaimedSets(c.base)
    /\ fnResult = <<>>
    /\ fnPc = "input"
    /\ GenIdle
    /\ ServerIdle

ApplyGenerate ==
    /\ fnPc = "input"
    /\ fnResult' = generateUniqueSanitizedName(fnName, fnClaimed)
    /\ fnPc' = "generated"
    /\ UNCHANGED <<fnName, fnClaimed, genVars, serverVars, callVars>>

NextUnique == ApplyGenerate

SpecUnique == InitUnique /\ [][NextUnique]_vars

\* C3: for every name and every set claimed of already-assigned tokens,
\* generateUniqueSanitizedName(name, claimed) returns a token that is not a
\* member of claimed.
C3_NotClaimed == fnPc = "generated" => fnResult \notin fnClaimed

\* "My Shortcut" with "my_shortcut" and "my_shortcut_1" claimed got "my_shortcut_2"
C3_Witness ==
    /\ fnPc = "generated"
    /\ fnName = MyShortcut
    /\ fnClaimed = {MyShortcutToken, MyShortcutToken \o <<"_","1">>}
    /\ fnResult = MyShortcutToken \o <<"_","2">>

\* C4: for every name and every set claimed, the token returned by
\* generateUniqueSanitizedName has at most 51 characters, so "run_shortcut_"
\* followed by it has at most 64, whatever the length of the counter suffix.
C4_UniqueLength ==
    fnPc = "generated" =>
        /\ Len(fnResult) <= 51
        /\ Len(prefix \o fnResult) <= 64

\* "a" * 60 after 99 collisions: the base is cut to 47 characters for "_100"
C4_Witness ==
    /\ fnPc = "generated"
    /\ fnName = Rep("a", 60)
    /\ fnResult = Rep("a", 47) \o <<"_","1","0","0">>
    /\ Len(prefix \o fnResult) = 64

\* the candidate for the counter k: base and "_k" when that fits the budget of
\* 51 characters, otherwise the first 51 - len("_k") characters of base and "_k"
BudgetCandidate(base, k) ==
    LET suffix == <<"_">> \o NumberToString(k)
    IN  IF Len(base) + Len(suffix) <= 51
        THEN base \o suffix
        ELSE SubSeq(base, 1, 51 - Len(suffix)) \o suffix

\* C24: generateUniqueSanitizedName(name, claimed) returns sanitize(name) when
\* that is not in claimed; otherwise it returns the candidate for the smallest
\* k >= 1 whose candidate is not in claimed, the room left for the base being
\* computed anew for each k.
C24_FirstFreeCandidate ==
    fnPc = "generated" =>
        \E base \in {sanitizeShortcutName(fnName)} :
            IF base \notin fnClaimed
            THEN fnResult = base
            ELSE \E k \in 1..Cardinality(fnClaimed) :
                    /\ fnResult = BudgetCandidate(base, k)
                    /\ fnResult \notin fnClaimed
                    /\ \A j \in 1..(k - 1) : BudgetCandidate(base, j) \in fnClaimed

\* "a" * 60 with "a" * 51 and "a" * 49 + "_1" .. "_9" claimed got
\* "a" * 48 + "_10"
C24_Witness ==
    /\ fnPc = "generated"
    /\ fnName = Rep("a", 60)
    /\ Cardinality(fnClaimed) = 10
    /\ \A k \in 1..9 : Rep("a", 49) \o <<"_", Digits[k + 1]>> \in fnClaimed
    /\ fnResult = Rep("a", 48) \o <<"_","1","0">>

-----------------------------------------------------------------------------
\* SpecResolve: generateUniqueSanitizedName called over and over for one name,
\* the caller adding each result to the set (shortcuts.test.ts lines 171-174,
\* shortcuts.ts lines 114-116), the while loop taken one iteration at a time

MaxCalls == 11        \* calls made for one name
MaxCounter == 16      \* the loop is followed up to this counter value
MaxSeed == 3          \* tokens claimed beforehand are candidates up to this counter

InitResolve ==
    /\ \E c \in UniqueCases :
          /\ originalName = c.name
          /\ existingSanitizedNames \in SUBSET Pool(c.base, MaxSeed)
    /\ baseSanitized = <<>>
    /\ uniqueSanitized = <<>>
    /\ counter = 1
    /\ genPc = "idle"
    /\ genReturned = <<>>
    /\ FnIdle
    /\ ServerIdle

\* lines 60-62
GenCall ==
    /\ genPc = "idle"
    /\ Len(genReturned) < MaxCalls
    /\ baseSanitized' = sanitizeShortcutName(originalName)
    /\ uniqueSanitized' = baseSanitized'
    /\ counter' = 1
    /\ genPc' = "loop"
    /\ UNCHANGED <<originalName, existingSanitizedNames, genReturned, fnVars, serverVars, callVars>>

\* lines 65-77: one iteration of the while loop
GenIterate ==
    /\ genPc = "loop"
    /\ uniqueSanitized \in existingSanitizedNames
    /\ counter <= MaxCounter
    /\ uniqueSanitized' = Candidate(baseSanitized, counter)
    /\ counter' = counter + 1
    /\ UNCHANGED <<originalName, existingSanitizedNames, baseSanitized, genPc,
                   genReturned, fnVars, serverVars, callVars>>

\* lines 65, 79: the loop condition fails, uniqueSanitized is returned
GenReturn ==
    /\ genPc = "loop"
    /\ uniqueSanitized \notin existingSanitizedNames
    /\ genPc' = "returned"
    /\ UNCHANGED <<originalName, existingSanitizedNames, baseSanitized, uniqueSanitized,
                   counter, genReturned, fnVars, serverVars, callVars>>

\* the caller adds the result to the set (line 116)
GenAdd ==
    /\ genPc = "returned"
    /\ existingSanitizedNames' = existingSanitizedNames \cup {uniqueSanitized}
    /\ genReturned' = Append(genReturned, [token |-> uniqueSanitized, counter |-> counter])
    /\ genPc' = "idle"
    /\ UNCHANGED <<originalName, baseSanitized, uniqueSanitized, counter, fnVars, serverVars,
                   callVars>>

NextResolve == GenCall \/ GenIterate \/ GenReturn \/ GenAdd

SpecResolve == InitResolve /\ [][NextResolve]_vars

\* the loop is synchronous code: once entered it keeps running
SpecResolveFair == SpecResolve /\ WF_vars(NextResolve)

ReturnedIncreasing ==
    \A i, j \in 1..Len(genReturned) :
        i < j => /\ genReturned[i].counter < genReturned[j].counter
                 /\ genReturned[i].token # genReturned[j].token

\* C5: calling generateUniqueSanitizedName repeatedly for the same name while
\* adding each result to claimed always terminates (every call that entered the
\* loop returns), uses strictly increasing counters from one call to the next,
\* and never returns a token it returned before.
C5_RepeatedCalls ==
    /\ [](ReturnedIncreasing /\ (genPc = "returned" => uniqueSanitized \notin existingSanitizedNames))
    /\ ((genPc = "loop") ~> (genPc = "returned"))
    /\ <>(Len(genReturned) = MaxCalls)

\* the eleventh call for "a" * 60 returned "a" * 48 + "_10"
C5_Witness ==
    /\ originalName = Rep("a", 60)
    /\ Len(genReturned) >= 11
    /\ genReturned[1].token = Rep("a", 51)
    /\ genReturned[10].token = Rep("a", 49) \o <<"_","9">>
    /\ genReturned[11].token = Rep("a", 48) \o <<"_","1","0">>
    /\ genReturned[11].counter = 11

-----------------------------------------------------------------------------
\* Spec: the server. createServer has run (line 421 started the first
\* `shortcuts list`); list_shortcuts requests start further listings; each
\* listing ends in its exec callback, with whatever the catalog holds then.

MaxLines == 2         \* shortcuts printed by one `shortcuts list`
MaxInFlight == 1      \* list_shortcuts requests whose subprocess has not ended

Hashes == <<"@","#">>
Bangs == <<"!","!">>
PaddedHashes == <<" ","@","#"," ">>

\* what a line of the catalog can be: two names that sanitize to the empty
\* token (one of them printed with blanks around it) and a 51-character name
\* with an underscore where a counter suffix makes the cut
CatalogLines == {PaddedHashes, Bangs, UnderscoreAtCut}

\* what `shortcuts list` can print: any lines, a name printed twice included
Stdouts == {JoinLines(lines, 1) : lines \in SeqsUpTo(CatalogLines, MaxLines)}

LabelWithId == <<"A","b"," ","(","C",")">>
LabelOnly == <<" ","A","b">>
LabelLike == <<"a","b"," ","c">>

\* lines of a catalog that prints identifiers: a name with an identifier in
\* parentheses, its label alone (printed after a blank), and a name that
\* sanitizes to the same token as the name with the identifier does
LabelLines == {LabelWithId, LabelOnly, LabelLike}

LabelStdouts == {JoinLines(lines, 1) : lines \in SeqsUpTo(LabelLines, MaxLines)}

\* lines 106-109 for each of them, computed once
Parsed == [stdout \in Stdouts \cup LabelStdouts |-> ParseShortcuts(stdout)]

Origins == {"init", "call"}

\* faulty variant: no try and catch, the rejection is unhandled and ends the process
initializeShortcutsUncaught(rejected) == IF rejected THEN "crashed" ELSE "initialized"

\* lines 230-238: the await of listShortcuts resolved, or rejected and caught
initializeShortcuts(rejected) == IF rejected THEN "caught" ELSE "initialized"

CommandFailed == <<"C","o","m","m","a","n","d"," ","f","a","i","l","e","d">>
Diagnostic == <<"w","a","r","n","i","n","g">>

\* how `shortcuts list` can fail: exec reports an error, or stderr holds text
ListFailures ==
    {ExecOutcome(TRUE, CommandFailed, <<>>, <<>>),
     ExecOutcome(FALSE, <<>>, <<>>, Diagnostic)}

Init ==
    /\ shortcutMap = <<>>
    /\ listExec = [init |-> 1, call |-> 0]
    /\ lastList = [refreshed |-> FALSE, shortcuts |-> <<>>, repeated |-> FALSE]
    /\ initState = "listing"
    /\ CallIdle
    /\ FnIdle
    /\ GenIdle

\* lines 341-345
isBaseTool(name) == name \in {LIST_SHORTCUTS, OPEN_SHORTCUT, RUN_SHORTCUT}

\* faulty variant: the configuration is not consulted
isDynamicToolAnyFlag(name) == startsWith(name, prefix)

\* lines 348-350
isDynamicTool(name) == GENERATE_SHORTCUT_TOOLS /\ startsWith(name, prefix)

\* lines 369, 393, 401-417: runShortcut is called and awaited; what its
\* executor throws leaves the handler through the catch
AwaitRunShortcut(name, params, writeOk) ==
    \E run \in {runShortcut(params, now, tmpFiles, writeOk)} :
        /\ runExec' = runExec \o run.started
        /\ tmpFiles' = run.files
        /\ lastHandled' =
              IF run.thrown = NoError
              THEN Handled("CallTool", name, NoError, Invoke(params), <<>>, Awaiting)
              ELSE Handled("CallTool", name, Rethrow(run.thrown), Invoke(params), <<>>,
                           NoResult)
        /\ UNCHANGED listExec

\* lines 337-418: the CallTool handler, up to its await or its throw
CallTool(name, args, writeOk) ==
    /\ initState # "crashed"
    /\ IF ~isBaseTool(name) /\ ~isDynamicTool(name)
       THEN /\ lastHandled' =
                 Handled("CallTool", name,
                         McpError("MethodNotFound", <<"Unknown tool: ", name>>),
                         NoInvoke, <<>>, NoResult)
            /\ UNCHANGED <<listExec, tmpFiles, runExec>>
       ELSE CASE name = LIST_SHORTCUTS ->
                 /\ listExec.call < MaxInFlight
                 /\ listExec' = [listExec EXCEPT !.call = @ + 1]
                 /\ lastHandled' =
                       Handled("CallTool", name, NoError, NoInvoke, <<>>, Awaiting)
                 /\ UNCHANGED <<tmpFiles, runExec>>
              [] name = OPEN_SHORTCUT ->
                 /\ runExec' = Append(runExec, openShortcut([name |-> Get(args, "name")]))
                 /\ lastHandled' =
                       Handled("CallTool", name, NoError, NoInvoke, <<>>, Awaiting)
                 /\ UNCHANGED <<listExec, tmpFiles>>
              [] name = RUN_SHORTCUT ->
                 AwaitRunShortcut(name,
                                  [name |-> Get(args, "name"), input |-> Get(args, "input")],
                                  writeOk)
              [] OTHER ->
                 IF isDynamicTool(name)
                 THEN \E shortcutName \in
                          {FindByToken(shortcutMap, RemoveFirst(name, prefix))} :
                          IF shortcutName = undefined \/ shortcutName = <<>>
                          THEN /\ lastHandled' =
                                    Handled("CallTool", name,
                                            McpError("InvalidParams",
                                                     <<"No shortcut found for sanitized name: ",
                                                       RemoveFirst(name, prefix)>>),
                                            NoInvoke, <<>>, NoResult)
                               /\ UNCHANGED <<listExec, tmpFiles, runExec>>
                          ELSE AwaitRunShortcut(name,
                                                [name |-> shortcutName,
                                                 input |-> IF "input" \in DOMAIN args
                                                           THEN String(args.input)
                                                           ELSE undefined],
                                                writeOk)
                 ELSE /\ lastHandled' =
                           Handled("CallTool", name,
                                   McpError("MethodNotFound", <<"Unknown tool: ", name>>),
                                   NoInvoke, <<>>, NoResult)
                      /\ UNCHANGED <<listExec, tmpFiles, runExec>>
    /\ UNCHANGED <<shortcutMap, lastList, configVars, now, initState,
                   fnVars, genVars>>

\* arguments: {} (line 338, the default)
NoArgs == [key \in {} |-> <<>>]

\* lines 337-363, 85-87: a list_shortcuts request starts `shortcuts list`
CallListShortcuts == CallTool(LIST_SHORTCUTS, NoArgs, TRUE)

\* lines 316-325: the ListTools handler
ListTools ==
    /\ initState # "crashed"
    /\ lastHandled' =
          Handled("ListTools", <<>>, NoError, NoInvoke,
                  IF GENERATE_SHORTCUT_TOOLS
                  THEN getBaseTools \o getDynamicShortcutTools(shortcutMap)
                  ELSE getBaseTools,
                  NoResult)
    /\ UNCHANGED <<serverVars, configVars, bridgeVars, initState,
                   fnVars, genVars>>

\* lines 87, 106-118: the callback without error and with an empty stderr
ListExecSuccess(origin, stdout) ==
    /\ listExec[origin] > 0
    /\ \E shortcuts \in {Parsed[stdout]} :
          /\ shortcutMap' = UpdateShortcutMap(shortcutMap, shortcuts)
          /\ lastList' = [refreshed |-> TRUE,
                          shortcuts |-> shortcuts,
                          repeated |-> lastList.refreshed /\ lastList.shortcuts = shortcuts]
    /\ listExec' = [listExec EXCEPT ![origin] = @ - 1]
    /\ UNCHANGED <<configVars, bridgeVars, fnVars, genVars>>

\* faulty variant: the map is cleared before the outcome of the command is looked at
ListExecFailureClears(origin) ==
    /\ listExec[origin] > 0
    /\ listExec' = [listExec EXCEPT ![origin] = @ - 1]
    /\ shortcutMap' = <<>>
    /\ UNCHANGED <<lastList, configVars, bridgeVars, fnVars, genVars>>

\* lines 88-105: the callback with an error or with text on stderr rejects
ListExecFailure(origin) ==
    /\ listExec[origin] > 0
    /\ listExec' = [listExec EXCEPT ![origin] = @ - 1]
    /\ UNCHANGED <<shortcutMap, lastList, configVars, bridgeVars,
                   fnVars, genVars>>

\* Spec follows the registry: what the code awaiting a listing does with its
\* outcome (ListSettled, below) is followed by SpecDispatch and SpecBridge
Next ==
    \/ CallListShortcuts /\ UNCHANGED requests
    \/ \E origin \in Origins, stdout \in Stdouts :
          ListExecSuccess(origin, stdout) /\ UNCHANGED <<initState, lastHandled, requests>>
    \/ \E origin \in Origins :
          ListExecFailure(origin) /\ UNCHANGED <<initState, lastHandled, requests>>

Spec == Init /\ [][Next]_vars

\* the names the latest successful listing enumerated
Enumerated == {lastList.shortcuts[i].name : i \in 1..Len(lastList.shortcuts)}

\* C6: round trip: after any successful refresh (whatever refreshes preceded
\* it) that enumerated n1..nk, for every ni the reverse lookup that dispatch
\* performs on the token stored for ni returns ni.
C6_RoundTrip ==
    lastList.refreshed =>
        \A n \in Enumerated : FindByToken(shortcutMap, MapGet(shortcutMap, n)) = n

\* C7: in every reachable registry state no two distinct external names of the
\* registry map to the same token.
C7_UniqueTokens ==
    \A i, j \in 1..Len(shortcutMap) :
        i # j => shortcutMap[i].token # shortcutMap[j].token

\* C8: after a successful refresh the registry holds an entry for exactly the
\* names that refresh enumerated; no entry survives for a name that is no
\* longer enumerated.
C8_RebuiltWholesale == lastList.refreshed => MapKeys(shortcutMap) = Enumerated

\* C9: a refresh that enumerates the same ordered name sequence as the
\* successful refresh before it leaves the name-to-token assignment as that
\* refresh left it. (The second conjunct follows from the third and fourth; it
\* is there so that the listing is only evaluated for the steps it can match.)
C9_SameSequenceSameAssignment ==
    [][\A origin \in Origins, stdout \in Stdouts :
          (/\ lastList.refreshed
           /\ lastList'.shortcuts = lastList.shortcuts
           /\ Parsed[stdout] = lastList.shortcuts
           /\ ListExecSuccess(origin, stdout))
          => shortcutMap' = shortcutMap]_vars

\* "@#" and "!!" were enumerated twice in a row; "!!" holds the token "_1"
C9_Witness ==
    /\ lastList.repeated
    /\ lastList.shortcuts = <<[name |-> Hashes], [name |-> Bangs]>>
    /\ MapGet(shortcutMap, Hashes) = <<>>
    /\ MapGet(shortcutMap, Bangs) = <<"_","1">>

DigitChars == {"0","1","2","3","4","5","6","7","8","9"}

\* the Tool Token shape: only [a-z0-9_], no underscore first or last, no two
\* underscores in a row
FullShape(t) ==
    /\ Range(t) \subseteq TokenChars
    /\ Len(t) > 0 => t[1] # "_" /\ t[Len(t)] # "_"
    /\ \A i \in 1..(Len(t) - 1) : ~(t[i] = "_" /\ t[i + 1] = "_")

\* t is the first n characters of base, an underscore and a decimal counter
IsCountered(t, base, n) ==
    /\ n <= Len(base)
    /\ Len(t) >= n + 2
    /\ SubSeq(t, 1, n) = SubSeq(base, 1, n)
    /\ t[n + 1] = "_"
    /\ \A i \in (n + 2)..Len(t) : t[i] \in DigitChars

\* C10 as claimed: every token stored in the registry has the Tool Token shape
\* and at most 51 characters, the tokens with a collision counter included.
C10_AllTokensFullShape ==
    \A i \in 1..Len(shortcutMap) :
        FullShape(shortcutMap[i].token) /\ Len(shortcutMap[i].token) <= 51

\* C10 as amended: every token stored in the registry has only characters of
\* [a-z0-9_], at most 51 of them, and does not end with an underscore. A token
\* stored without a collision counter (the sanitized name itself) has the full
\* Tool Token shape. A token with a collision counter is a prefix of the
\* sanitized name followed by "_" and the decimal counter: it starts with an
\* underscore when that prefix is empty and has two underscores in a row when
\* the prefix ends with one.
C10_StoredTokenShape ==
    \A i \in 1..Len(shortcutMap) :
        LET t == shortcutMap[i].token
            base == sanitizeShortcutName(shortcutMap[i].name)
        IN  /\ Range(t) \subseteq TokenChars
            /\ Len(t) <= 51
            /\ Len(t) > 0 => t[Len(t)] # "_"
            /\ t = base => FullShape(t)
            /\ t # base => \E n \in 0..Len(base) :
                              /\ IsCountered(t, base, n)
                              \* the prefix itself starts with no underscore
                              \* and has no two in a row
                              /\ FullShape(SubSeq(base, 1, n) \o <<"x">>)

\* the registry holds "_1" (empty base) and "a" * 48 + "__1" (base cut after
\* its underscore)
C10_Witness ==
    /\ <<"_","1">> \in MapValues(shortcutMap)
    /\ Rep("a", 48) \o <<"_","_","1">> \in MapValues(shortcutMap)

-----------------------------------------------------------------------------
\* The requests: what awaits a subprocess takes up its outcome in the same
\* turn of the event loop as the callback of exec

\* what awaits the listing: initializeShortcuts (lines 233-237) for the listing
\* of line 421, the CallTool handler (lines 363, 401-417) for a request
ListSettled(origin, settled) ==
    /\ initState' = IF origin = "init"
                    THEN initializeShortcuts(settled.thrown # NoError)
                    ELSE initState
    /\ lastHandled' =
          IF origin = "call"
          THEN Handled("list", <<>>,
                       IF settled.thrown = NoError THEN NoError ELSE Rethrow(settled.thrown),
                       NoInvoke, <<>>, settled.result)
          ELSE lastHandled

\* `shortcuts list` ended well: the callback, then the code that awaited it
ListResolved(origin, stdout) ==
    /\ ListExecSuccess(origin, stdout)
    /\ ListSettled(origin, listShortcutsCallback(ExecOutcome(FALSE, <<>>, stdout, <<>>)))

\* `shortcuts list` failed: the callback, then the code that awaited it
ListRejected(origin, outcome) ==
    /\ ListExecFailure(origin)
    /\ ListSettled(origin, listShortcutsCallback(outcome))

\* the sequence s without its i-th element
Without(s, i) == [j \in 1..(Len(s) - 1) |-> IF j < i THEN s[j] ELSE s[j + 1]]

\* `shortcuts run` or `shortcuts view` ended: the callback of exec (lines
\* 127-147, 181-203), then the CallTool handler that awaited it (lines 366,
\* 369, 393, 401-417)
ExecSettled(i, outcome) ==
    /\ i \in 1..Len(runExec)
    /\ \E settled \in {IF runExec[i].cmd = "run"
                        THEN runShortcutCallback(runExec[i], outcome)
                        ELSE openShortcutCallback(runExec[i], outcome)} :
          lastHandled' =
              Handled(runExec[i].cmd, <<>>,
                      IF settled.thrown = NoError THEN NoError ELSE Rethrow(settled.thrown),
                      NoInvoke, <<>>, settled.result)
    /\ runExec' = Without(runExec, i)
    /\ UNCHANGED <<serverVars, configVars, now, tmpFiles, initState,
                   fnVars, genVars>>

Out == <<"o","u","t">>

\* how `shortcuts run` and `shortcuts view` can end
ExecOutcomes ==
    {ExecOutcome(FALSE, <<>>, <<>>, <<>>),
     ExecOutcome(FALSE, <<>>, Out, <<>>),
     ExecOutcome(FALSE, <<>>, Out, Diagnostic),
     ExecOutcome(TRUE, CommandFailed, <<>>, Diagnostic)}

-----------------------------------------------------------------------------
\* SpecDispatch: requests by tool name against a registry that listings
\* refresh, with dynamic tools enabled or disabled

MaxRunning == 1       \* subprocesses of the bridge in flight in SpecDispatch

Hi == <<"h","i">>

DispatchNames ==
    {LIST_SHORTCUTS, OPEN_SHORTCUT, RUN_SHORTCUT,
     prefix,                          \* the token ""
     prefix \o <<"_","1">>,           \* the token "_1"
     prefix \o <<"z","z">>,           \* a token no shortcut gets
     RUN_SHORTCUT \o <<"s">>}         \* "run_shortcuts": no base tool, no prefix

DispatchArgs ==
    {NoArgs, [input |-> Hi], [name |-> Bangs], [name |-> Bangs, input |-> Hi]}

\* listings of "!!", of "@#", and of the two together
DispatchStdouts ==
    {JoinLines(<<Bangs>>, 1), JoinLines(<<PaddedHashes>>, 1),
     JoinLines(<<PaddedHashes, Bangs>>, 1)}

InitDispatch ==
    /\ shortcutMap = <<>>
    /\ listExec = [init |-> 1, call |-> 0]
    /\ lastList = [refreshed |-> FALSE, shortcuts |-> <<>>, repeated |-> FALSE]
    /\ initState = "listing"
    /\ \E generate \in {undefined, FalseText} : Configured(ProcessEnv(generate, undefined))
    /\ now = 0
    /\ tmpFiles = NoFiles
    /\ runExec = <<>>
    /\ lastHandled = NoHandled
    /\ requests = <<>>
    /\ FnIdle
    /\ GenIdle

NextDispatch ==
    \/ \E name \in DispatchNames, args \in DispatchArgs :
          Len(runExec) < MaxRunning /\ CallTool(name, args, TRUE) /\ UNCHANGED requests
    \/ ListTools /\ UNCHANGED requests
    \/ \E origin \in Origins, stdout \in DispatchStdouts :
          ListResolved(origin, stdout) /\ UNCHANGED requests
    \/ \E origin \in Origins, outcome \in ListFailures :
          ListRejected(origin, outcome) /\ UNCHANGED requests
    \/ \E i \in 1..MaxRunning, outcome \in ExecOutcomes :
          ExecSettled(i, outcome) /\ UNCHANGED requests

SpecDispatch == InitDispatch /\ [][NextDispatch]_vars

\* a step of SpecDispatch in which the CallTool handler ran for name and args
DispatchStep(name, args) ==
    /\ lastHandled'.handler = "CallTool"
    /\ lastHandled'.name = name
    /\ listExec'.init = listExec.init
    /\ CallTool(name, args, TRUE)

\* what follows "run_shortcut_" in a tool name
Remainder(name) == SubSeq(name, Len(prefix) + 1, Len(name))

\* C11: with dynamic tools enabled, a request for a tool name that starts with
\* "run_shortcut_" and whose remainder is the token of no registry entry fails
\* with an invalid-parameters error, and runShortcut is not called for it: no
\* subprocess is started and no file is written.
C11_UnknownTokenInvalidParams ==
    [][\A name \in DispatchNames, args \in DispatchArgs :
          (/\ GENERATE_SHORTCUT_TOOLS
           /\ startsWith(name, prefix)
           /\ \A i \in 1..Len(shortcutMap) : shortcutMap[i].token # Remainder(name)
           /\ DispatchStep(name, args))
          => /\ lastHandled'.thrown.mcp
             /\ lastHandled'.thrown.code = "InvalidParams"
             /\ ~lastHandled'.invoked.called
             /\ runExec' = runExec
             /\ tmpFiles' = tmpFiles]_vars

\* "run_shortcut_zz" was refused with invalid parameters while the registry
\* held two shortcuts
C11_Witness ==
    /\ GENERATE_SHORTCUT_TOOLS
    /\ Len(shortcutMap) = 2
    /\ lastHandled.handler = "CallTool"
    /\ lastHandled.name = prefix \o <<"z","z">>
    /\ lastHandled.thrown.code = "InvalidParams"
    /\ runExec = <<>>

\* the three fixed names, written out
FixedNames ==
    {<<"l","i","s","t","_","s","h","o","r","t","c","u","t","s">>,
     <<"o","p","e","n","_","s","h","o","r","t","c","u","t">>,
     <<"r","u","n","_","s","h","o","r","t","c","u","t">>}

\* C12: a tool name is accepted for dispatch (the request does not fail with
\* method-not-found) if and only if it is one of list_shortcuts, open_shortcut
\* and run_shortcut, or dynamic tools are enabled and it starts with
\* "run_shortcut_"; the fixed names are accepted whatever the flag is, and
\* every other name fails with a method-not-found error.
C12_AcceptedNames ==
    [][\A name \in DispatchNames, args \in DispatchArgs :
          DispatchStep(name, args)
          => LET accepted == \/ name \in FixedNames
                             \/ GENERATE_SHORTCUT_TOOLS /\ startsWith(name, prefix)
             IN  /\ accepted => lastHandled'.thrown.code # "MethodNotFound"
                 /\ ~accepted => /\ lastHandled'.thrown.mcp
                                 /\ lastHandled'.thrown.code = "MethodNotFound"
                                 /\ lastHandled'.thrown.message[2] = name
                                 /\ runExec' = runExec]_vars

\* with dynamic tools disabled, "run_shortcut__1" was refused as unknown
\* although the registry holds the token "_1"
C12_Witness ==
    /\ ~GENERATE_SHORTCUT_TOOLS
    /\ <<"_","1">> \in MapValues(shortcutMap)
    /\ lastHandled.handler = "CallTool"
    /\ lastHandled.name = prefix \o <<"_","1">>
    /\ lastHandled.thrown.code = "MethodNotFound"

\* C13: with dynamic tools enabled, a request for "run_shortcut_" + t, where
\* the registry maps the name n to the token t, calls runShortcut with exactly
\* the name n and the input of the request (undefined when it has none).
C13_DispatchRunsMappedName ==
    [][\A name \in DispatchNames, args \in DispatchArgs :
          (/\ GENERATE_SHORTCUT_TOOLS
           /\ startsWith(name, prefix)
           /\ DispatchStep(name, args))
          => \A i \in 1..Len(shortcutMap) :
                shortcutMap[i].token = Remainder(name)
                => lastHandled'.invoked =
                      [called |-> TRUE,
                       name |-> shortcutMap[i].name,
                       input |-> IF "input" \in DOMAIN args THEN args.input
                                 ELSE undefined]]_vars

\* C14: the tools listed are a projection of the registry: with dynamic tools
\* enabled, the three fixed tools and then one tool for every registry entry,
\* named "run_shortcut_" + the token of that entry; with dynamic tools
\* disabled, the three fixed tools only.
C14_ListingProjectsRegistry ==
    [][(lastHandled'.handler = "ListTools" /\ ListTools)
       => LET tools == lastHandled'.tools
          IN  /\ Len(tools) = 3 + (IF GENERATE_SHORTCUT_TOOLS THEN Len(shortcutMap) ELSE 0)
              /\ {tools[i].name : i \in 1..3} = FixedNames
              /\ GENERATE_SHORTCUT_TOOLS =>
                    \A i \in 1..Len(shortcutMap) :
                        /\ tools[3 + i].name = prefix \o shortcutMap[i].token
                        /\ tools[3 + i].shortcut = shortcutMap[i].name]_vars

\* the registry holds two shortcuts with the same token, and the listing has
\* a tool for each of them
C14_Witness ==
    /\ GENERATE_SHORTCUT_TOOLS
    /\ lastHandled.handler = "ListTools"
    /\ Len(lastHandled.tools) = 5
    /\ lastHandled.tools[4].name = prefix
    /\ lastHandled.tools[5].name = prefix
    /\ lastHandled.tools[4].shortcut # lastHandled.tools[5].shortcut

C16_FailedListingKeepsRegistry ==
    /\ [][(\/ initState = "listing" /\ initState' \notin {"listing", "initialized"}
           \/ /\ listExec'.call < listExec.call
              /\ lastHandled'.handler = "list"
              /\ lastHandled'.thrown # NoError)
          => shortcutMap' = shortcutMap]_vars
    /\ [](listExec.init = 0 => initState \in {"initialized", "caught"})
    /\ [](initState = "caught" =>
             /\ ENABLED ListTools
             /\ ENABLED CallTool(OPEN_SHORTCUT, [name |-> Bangs], TRUE))

\* the listing of startup failed and was caught; the server went on: a
\* list_shortcuts request filled the registry, and the listing of a later one
\* failed and left the two entries
C16_Witness ==
    /\ initState = "caught"
    /\ lastHandled.handler = "list"
    /\ lastHandled.thrown.code = "InternalError"
    /\ Len(shortcutMap) = 2

\* C21: a shortcut whose name sanitizes to the empty token is handled like any
\* other: its registry entry holds the token "" or "_k", the tool listing has a
\* tool "run_shortcut_" + that token for it, and (dynamic tools enabled) a
\* request for that tool name calls runShortcut with the name of that shortcut.
C21_EmptyTokenHandled ==
    /\ [](\A i \in 1..Len(shortcutMap) :
             sanitizeShortcutName(shortcutMap[i].name) = <<>>
             => \/ shortcutMap[i].token = <<>>
                \/ IsCountered(shortcutMap[i].token, <<>>, 0))
    /\ [][(GENERATE_SHORTCUT_TOOLS /\ lastHandled'.handler = "ListTools" /\ ListTools)
          => \A i \in 1..Len(shortcutMap) :
                sanitizeShortcutName(shortcutMap[i].name) = <<>>
                => \E t \in 1..Len(lastHandled'.tools) :
                      /\ lastHandled'.tools[t].name = prefix \o shortcutMap[i].token
                      /\ lastHandled'.tools[t].shortcut = shortcutMap[i].name]_vars
    /\ [][\A name \in DispatchNames, args \in DispatchArgs :
             (GENERATE_SHORTCUT_TOOLS /\ DispatchStep(name, args))
             => \A i \in 1..Len(shortcutMap) :
                   (/\ sanitizeShortcutName(shortcutMap[i].name) = <<>>
                    /\ name = prefix \o shortcutMap[i].token)
                   => /\ lastHandled'.thrown = NoError
                      /\ lastHandled'.invoked.called
                      /\ lastHandled'.invoked.name = shortcutMap[i].name]_vars

\* C26: nothing but a listing that succeeds changes the registry: the
\* ListTools handler, the CallTool handler for list_shortcuts, open_shortcut,
\* run_shortcut and every dynamic tool, the end of a run or open command,
\* failed or not, and a listing that fails all leave the registry as it was.
\* (Stated from the registry: a step that changes it is none of these.)
C26_OnlyRefreshChangesRegistry ==
    /\ [][shortcutMap' # shortcutMap
          => ~(\/ lastHandled'.handler = "ListTools" /\ ListTools
               \/ \E name \in DispatchNames, args \in DispatchArgs :
                     DispatchStep(name, args)
               \/ \E i \in 1..MaxRunning, outcome \in ExecOutcomes :
                     Len(runExec') < Len(runExec) /\ ExecSettled(i, outcome)
               \/ \E origin \in Origins, outcome \in ListFailures :
                     listExec'[origin] < listExec[origin] /\ ListRejected(origin, outcome))]_vars
    /\ [][shortcutMap' # shortcutMap
          => \/ /\ listExec'.init < listExec.init
                /\ initState = "listing"
                /\ initState' = "initialized"
             \/ /\ listExec'.call < listExec.call
                /\ lastHandled'.handler = "list"
                /\ lastHandled'.thrown = NoError
                /\ lastHandled'.result.kind = "shortcuts"]_vars

\* the run that the dynamic tool of "@#" had started failed, and the registry
\* still holds its two entries
C26_Witness ==
    /\ lastHandled.handler = "run"
    /\ lastHandled.thrown.code = "InternalError"
    /\ runExec = <<>>
    /\ Len(shortcutMap) = 2
    /\ lastList.refreshed

-----------------------------------------------------------------------------
\* SpecBridge: run and open requests with every kind of input, overlapping in
\* time, while the clock advances

MaxOverlap == 2       \* subprocesses of the bridge in flight in SpecBridge
MaxNow == 1           \* the clock advances up to this stamp

MissingPath == <<"a","/","b">>

\* the fixed run and open tools, the dynamic tool of the token "", and a name
\* that is no tool
BridgeNames == {RUN_SHORTCUT, OPEN_SHORTCUT, prefix, RUN_SHORTCUT \o <<"s">>}

\* no input, the empty text, inline text, a path that does not exist, one that does
BridgeArgs ==
    {[name |-> Bangs],
     [name |-> Bangs, input |-> <<>>],
     [name |-> Bangs, input |-> Hi],
     [name |-> Bangs, input |-> MissingPath],
     [name |-> Bangs, input |-> SlashX]}

BridgeStdouts == {JoinLines(<<Bangs>>, 1)}

InitBridge ==
    /\ shortcutMap = <<>>
    /\ listExec = [init |-> 1, call |-> 0]
    /\ lastList = [refreshed |-> FALSE, shortcuts |-> <<>>, repeated |-> FALSE]
    /\ initState = "listing"
    /\ Configured(ProcessEnv(undefined, undefined))
    /\ now = 0
    /\ tmpFiles = NoFiles
    /\ runExec = <<>>
    /\ lastHandled = NoHandled
    /\ requests = <<>>
    /\ FnIdle
    /\ GenIdle

\* a millisecond passes
Tick ==
    /\ now < MaxNow
    /\ now' = now + 1
    /\ UNCHANGED <<serverVars, configVars, tmpFiles, runExec, initState,
                   lastHandled, fnVars, genVars>>

NextBridge ==
    \/ \E name \in BridgeNames, args \in BridgeArgs, writeOk \in BOOLEAN :
          Len(runExec) < MaxOverlap /\ CallTool(name, args, writeOk) /\ UNCHANGED requests
    \/ Tick /\ UNCHANGED requests
    \/ \E origin \in Origins, stdout \in BridgeStdouts :
          ListResolved(origin, stdout) /\ UNCHANGED requests
    \/ \E origin \in Origins, outcome \in ListFailures :
          ListRejected(origin, outcome) /\ UNCHANGED requests
    \/ \E i \in 1..MaxOverlap, outcome \in ExecOutcomes :
          ExecSettled(i, outcome) /\ UNCHANGED requests

SpecBridge == InitBridge /\ [][NextBridge]_vars

\* a step of SpecBridge in which the CallTool handler ran for name and args
BridgeStep(name, args, writeOk) ==
    /\ lastHandled'.handler = "CallTool"
    /\ lastHandled'.name = name
    /\ listExec'.init = listExec.init
    /\ now' = now
    /\ CallTool(name, args, writeOk)

\* C17: a run request whose input holds a "/" and names a path that does not
\* exist fails with an invalid-parameters error before any command is
\* started (and before any file is written), for run_shortcut and for a
\* dynamic tool alike.
C17_MissingPathInvalidParams ==
    [][\A name \in {RUN_SHORTCUT, prefix}, args \in BridgeArgs, writeOk \in BOOLEAN :
          (/\ "input" \in DOMAIN args
           /\ "/" \in Range(args.input)
           /\ args.input \notin ExistingPaths
           /\ BridgeStep(name, args, writeOk))
          => /\ lastHandled'.thrown.mcp
             /\ lastHandled'.thrown.code = "InvalidParams"
             /\ runExec' = runExec
             /\ tmpFiles' = tmpFiles]_vars

\* the dynamic tool of "!!" was asked to run with the input "a/b" while another
\* run was in flight: runShortcut was called and refused the path
C17_Witness ==
    /\ lastHandled.handler = "CallTool"
    /\ lastHandled.name = prefix
    /\ lastHandled.invoked = [called |-> TRUE, name |-> Bangs, input |-> MissingPath]
    /\ lastHandled.thrown.code = "InvalidParams"
    /\ lastHandled.thrown.message[2] = MissingPath
    /\ Len(runExec) = 1

\* C18: when the command the bridge runs fails or writes to stderr, the
\* request is answered with an internal error that carries the message of the
\* command, and the command is not started again for that request.
C18_BridgeFailureInternalError ==
    [][\A i \in 1..MaxOverlap, outcome \in ExecOutcomes :
          (/\ outcome.failed \/ Len(outcome.stderr) > 0
           /\ Len(runExec') < Len(runExec)
           /\ ExecSettled(i, outcome))
          => /\ lastHandled'.thrown.mcp
             /\ lastHandled'.thrown.code = "InternalError"
             /\ lastHandled'.thrown.message[2] \in {outcome.message, outcome.stderr}
             /\ runExec' = Without(runExec, i)]_vars

ErrorCodes == {"MethodNotFound", "InvalidParams", "InternalError"}

\* C19: every error that leaves the CallTool handler is an McpError. An
\* McpError raised inside the handler leaves it with its code and message
\* unchanged (the missing input path of runShortcut, the failure of a command);
\* any other exception (the failed write of the temporary file) leaves it as an
\* internal error with the message of the exception.
C19_ErrorsLeaveStructured ==
    /\ [](lastHandled.thrown # NoError =>
             lastHandled.thrown.mcp /\ lastHandled.thrown.code \in ErrorCodes)
    /\ [][\A name \in BridgeNames, args \in BridgeArgs, writeOk \in BOOLEAN :
             (BridgeStep(name, args, writeOk) /\ lastHandled'.invoked.called)
             => LET input == lastHandled'.invoked.input
                IN  IF "/" \in Range(input)
                    THEN input \notin ExistingPaths =>
                            lastHandled'.thrown =
                                [mcp |-> TRUE, code |-> "InvalidParams",
                                 message |-> <<"Input file does not exist: ", input>>]
                    ELSE ~writeOk =>
                            lastHandled'.thrown =
                                [mcp |-> TRUE, code |-> "InternalError",
                                 message |-> <<"ENOSPC: no space left on device, write",
                                               <<>>>>]]_vars
    /\ [][\A i \in 1..MaxOverlap, outcome \in ExecOutcomes :
             (/\ outcome.failed
              /\ Len(runExec') < Len(runExec)
              /\ ExecSettled(i, outcome))
             => /\ lastHandled'.thrown.code = "InternalError"
                /\ lastHandled'.thrown.message[1] \in
                      {"Failed to run shortcut: ", "Failed to open shortcut: "}
                /\ lastHandled'.thrown.message[2] = outcome.message]_vars

\* the write of the temporary file failed for the dynamic tool of "!!": the
\* exception left the handler as an internal error with its message
C19_Witness ==
    /\ lastHandled.handler = "CallTool"
    /\ lastHandled.name = prefix
    /\ lastHandled.invoked.called
    /\ lastHandled.thrown.mcp
    /\ lastHandled.thrown.code = "InternalError"
    /\ lastHandled.thrown.message[1] = "ENOSPC: no space left on device, write"

\* C20: every run with inline input writes that input to a temporary file of
\* its own: two runs in flight at the same time never have the same temporary
\* file, so the file of a run in flight holds the input of that run.
C20_OverlappingRunsDistinctFiles ==
    /\ \A i, j \in 1..Len(runExec) :
          (i < j /\ runExec[i].tmp /\ runExec[j].tmp)
          => runExec[i].stamp # runExec[j].stamp
    /\ \A i \in 1..Len(runExec) :
          runExec[i].tmp => tmpFiles[runExec[i].stamp] = runExec[i].input

-----------------------------------------------------------------------------
\* SpecConfig: the server started in every environment of EnvValues, its tools
\* listed and called while listings fill the registry

\* what an environment variable can hold: not set, empty, the two literals of
\* lines 19 and 20, and the same words in other case
EnvValues ==
    {undefined, <<>>, FalseText, TrueText, <<"F","A","L","S","E">>, <<"T","r","u","e">>}

ConfigNames == {LIST_SHORTCUTS, prefix, prefix \o <<"_","1">>}

ConfigArgs == {[name |-> Bangs]}

\* listings of "!!", and of "@#" and "!!"
ConfigStdouts == {JoinLines(<<Bangs>>, 1), JoinLines(<<PaddedHashes, Bangs>>, 1)}

InitConfig ==
    /\ shortcutMap = <<>>
    /\ listExec = [init |-> 1, call |-> 0]
    /\ lastList = [refreshed |-> FALSE, shortcuts |-> <<>>, repeated |-> FALSE]
    /\ initState = "listing"
    /\ \E generate \in EnvValues, inject \in EnvValues :
          Configured(ProcessEnv(generate, inject))
    /\ now = 0
    /\ tmpFiles = NoFiles
    /\ runExec = <<>>
    /\ lastHandled = NoHandled
    /\ requests = <<>>
    /\ FnIdle
    /\ GenIdle

NextConfig ==
    \/ \E name \in ConfigNames, args \in ConfigArgs :
          runExec = <<>> /\ CallTool(name, args, TRUE) /\ UNCHANGED requests
    \/ ListTools /\ UNCHANGED requests
    \/ \E origin \in Origins, stdout \in ConfigStdouts :
          ListResolved(origin, stdout) /\ UNCHANGED requests
    \/ \E origin \in Origins, outcome \in ListFailures :
          ListRejected(origin, outcome) /\ UNCHANGED requests
    \/ \E outcome \in ExecOutcomes : ExecSettled(1, outcome) /\ UNCHANGED requests

SpecConfig == InitConfig /\ [][NextConfig]_vars

\* the text has the pattern in it
Holds(text, pattern) ==
    \E i \in 1..(Len(text) - Len(pattern) + 1) :
        SubSeq(text, i, i + Len(pattern) - 1) = pattern

AvailableText ==
    <<"A","v","a","i","l","a","b","l","e"," ","s","h","o","r","t","c","u","t","s",":">>

\* the description of the tool run_shortcut in a list of tools
RunToolDescription(tools) ==
    tools[CHOOSE t \in 1..Len(tools) :
             tools[t].name = <<"r","u","n","_","s","h","o","r","t","c","u","t">>].description

\* a step in which the ListTools handler ran
ListToolsStep == lastHandled'.handler = "ListTools" /\ ListTools

\* C22: dynamic tools are enabled for every value of the environment variable
\* GENERATE_SHORTCUT_TOOLS, not set included, except the exact text "false":
\* they are listed for every registry entry and accepted for dispatch. The
\* catalog is put into the description of run_shortcut only when
\* INJECT_SHORTCUT_LIST is exactly "true", and for no other value, not set
\* included.
C22_FlagValues ==
    /\ [][ListToolsStep
          => LET tools == lastHandled'.tools
                 exactlyFalse == env.GENERATE_SHORTCUT_TOOLS = <<"f","a","l","s","e">>
                 exactlyTrue == env.INJECT_SHORTCUT_LIST = <<"t","r","u","e">>
             IN  /\ exactlyFalse => Len(tools) = 3
                 /\ ~exactlyFalse => Len(tools) = 3 + Len(shortcutMap)
                 /\ ~exactlyTrue => ~Holds(RunToolDescription(tools), AvailableText)
                 /\ (exactlyTrue /\ Len(shortcutMap) > 0)
                       => Holds(RunToolDescription(tools), AvailableText)]_vars
    /\ [][\A name \in ConfigNames, args \in ConfigArgs :
             (/\ startsWith(name, prefix)
              /\ lastHandled'.handler = "CallTool"
              /\ lastHandled'.name = name
              /\ CallTool(name, args, TRUE))
             => (lastHandled'.thrown.code = "MethodNotFound"
                   <=> env.GENERATE_SHORTCUT_TOOLS = <<"f","a","l","s","e">>)]_vars

\* with GENERATE_SHORTCUT_TOOLS=FALSE and INJECT_SHORTCUT_LIST=True, both in
\* another case than the literals, the dynamic tools of two shortcuts were
\* listed and the description of run_shortcut was left without the catalog
C22_Witness ==
    /\ env.GENERATE_SHORTCUT_TOOLS = <<"F","A","L","S","E">>
    /\ env.INJECT_SHORTCUT_LIST = <<"T","r","u","e">>
    /\ lastHandled.handler = "ListTools"
    /\ Len(lastHandled.tools) = 5
    /\ ~Holds(RunToolDescription(lastHandled.tools), AvailableText)

\* C23: the description of run_shortcut in the tools listed holds an
\* "Available shortcuts:" line followed by one line `- "name"` for every name
\* of the registry, in the order of the registry, exactly when
\* INJECT_SHORTCUT_LIST is on and the registry is not empty; otherwise the
\* description holds no "Available shortcuts:" at all.
C23_InjectedCatalog ==
    [][ListToolsStep
       => \E lines \in {SplitLines(RunToolDescription(lastHandled'.tools))} :
              IF INJECT_SHORTCUT_LIST /\ shortcutMap # <<>>
              THEN \E h \in 1..Len(lines) :
                      /\ lines[h] = AvailableText
                      /\ \A g \in 1..(h - 1) : ~Holds(lines[g], AvailableText)
                      /\ Len(lines) = h + Len(shortcutMap)
                      /\ \A i \in 1..Len(shortcutMap) :
                            lines[h + i] =
                                <<"-"," ","\"">> \o shortcutMap[i].name \o <<"\"">>
              ELSE \A g \in 1..Len(lines) : ~Holds(lines[g], AvailableText)]_vars

\* with injection on, the description lists "@#" and "!!"
C23_Witness ==
    /\ INJECT_SHORTCUT_LIST
    /\ lastHandled.handler = "ListTools"
    /\ Len(shortcutMap) = 2
    /\ Holds(RunToolDescription(lastHandled.tools),
             <<"-"," ","\"","@","#","\"","\n","-"," ","\"","!","!","\"">>)

-----------------------------------------------------------------------------
\* SpecCatalog: the registry refreshed from a catalog whose names carry
\* identifiers in parentheses, by the listing of startup and by list_shortcuts
\* requests

InitCatalog ==
    /\ shortcutMap = <<>>
    /\ listExec = [init |-> 1, call |-> 0]
    /\ lastList = [refreshed |-> FALSE, shortcuts |-> <<>>, repeated |-> FALSE]
    /\ initState = "listing"
    /\ CallIdle
    /\ FnIdle
    /\ GenIdle

\* SpecCatalog follows the registry, as Spec does
NextCatalog ==
    \/ CallListShortcuts /\ UNCHANGED requests
    \/ \E origin \in Origins, stdout \in LabelStdouts :
          ListExecSuccess(origin, stdout) /\ UNCHANGED <<initState, lastHandled, requests>>
    \/ \E origin \in Origins :
          ListExecFailure(origin) /\ UNCHANGED <<initState, lastHandled, requests>>

SpecCatalog == InitCatalog /\ [][NextCatalog]_vars

\* C27: the token of an enumerated name is made from the whole name as
\* `shortcuts list` printed it (trimmed), an identifier in parentheses at its
\* end included: it is the sanitized whole name, or that with a collision
\* counter. For "Ab (C)" that is "ab_c" or "ab_c_k", never a token of the label
\* "Ab" alone.
C27_TokenFromWholeName ==
    lastList.refreshed =>
        /\ \A n \in Enumerated :
              \E t \in {MapGet(shortcutMap, n)}, whole \in {sanitizeShortcutName(n)} :
                  t = whole \/ IsCountered(t, whole, Len(whole))
        /\ <<"A","b"," ","(","C",")">> \in Enumerated
              => SubSeq(MapGet(shortcutMap, <<"A","b"," ","(","C",")">>), 1, 4)
                    = <<"a","b","_","c">>

\* "Ab" and "Ab (C)" were enumerated: the tokens are "ab" and "ab_c"
C27_Witness ==
    /\ lastList.refreshed
    /\ lastList.shortcuts = <<[name |-> <<"A","b">>], [name |-> LabelWithId]>>
    /\ MapGet(shortcutMap, <<"A","b">>) = <<"a","b">>
    /\ MapGet(shortcutMap, LabelWithId) = <<"a","b","_","c">>

\* the tokens that the first k names of a sequence get when they are resolved
\* one after the other, each against the tokens of those before it
RECURSIVE Resolved(_, _)
Resolved(names, k) ==
    IF k = 0 THEN <<>>
    ELSE The({Append(before, generateUniqueSanitizedName(names[k].name, Range(before))) :
                 before \in {Resolved(names, k - 1)}})

\* C29: the tokens a refresh assigns depend on nothing but the sequence of
\* names it enumerated: whatever the registry held before, every enumerated
\* name has the token that resolving the sequence from its start gives it (the
\* token of its last occurrence, when it was printed more than once).
C29_TokensFromSequenceOnly ==
    lastList.refreshed =>
        \E tokens \in {Resolved(lastList.shortcuts, Len(lastList.shortcuts))} :
            \A k \in 1..Len(tokens) :
                (\A later \in (k + 1)..Len(tokens) :
                    lastList.shortcuts[later].name # lastList.shortcuts[k].name)
                => MapGet(shortcutMap, lastList.shortcuts[k].name) = tokens[k]

\* "ab c" and "Ab (C)" were enumerated, in this order, into a registry that
\* held "Ab" and held "Ab (C)" before "ab c": the tokens are "ab_c" and "ab_c_1"
C29_Witness ==
    /\ lastList.refreshed
    /\ lastList.shortcuts = <<[name |-> LabelLike], [name |-> LabelWithId]>>
    /\ Len(shortcutMap) = 3
    /\ shortcutMap[1].name = LabelWithId
    /\ MapGet(shortcutMap, LabelLike) = <<"a","b","_","c">>
    /\ MapGet(shortcutMap, LabelWithId) = <<"a","b","_","c","_","1">>

-----------------------------------------------------------------------------
\* SpecRequests: every CallTool request is followed from the handler that
\* receives it to the outcome the transport sends back: the error the handler
\* throws (lines 354, 409-417) or the content it returns (lines 401-408)

MaxRequests == 3      \* requests received in one run of the server

RequestNames ==
    {LIST_SHORTCUTS, OPEN_SHORTCUT, RUN_SHORTCUT,
     prefix,                          \* the dynamic tool of the token ""
     prefix \o <<"z","z">>,           \* a token no shortcut has
     RUN_SHORTCUT \o <<"s">>}         \* no tool at all

RequestArgs == {[name |-> Bangs], [name |-> Bangs, input |-> MissingPath]}

\* the request has left the handler: it is done, with one more outcome when
\* the handler threw an error or returned a result
Answered(id, handled) ==
    [requests EXCEPT
        ![id] = [at |-> "done",
                 answers |-> @.answers +
                     (IF handled.thrown # NoError
                         \/ handled.result.kind \notin {"none", "awaiting"}
                      THEN 1 ELSE 0)]]

\* the place in runExec of the subprocess that the request id awaits:
\* subprocesses are kept in the order in which they were started
Position(id) == Cardinality({j \in 1..id : requests[j].at = "exec"})

\* a request arrives and the CallTool handler runs up to its await or its throw
Receive(name, args, writeOk) ==
    /\ Len(requests) < MaxRequests
    /\ CallTool(name, args, writeOk)
    /\ requests' =
          Append(requests,
                 IF Len(runExec') > Len(runExec) THEN [at |-> "exec", answers |-> 0]
                 ELSE IF listExec'.call > listExec.call THEN [at |-> "list", answers |-> 0]
                 ELSE [at |-> "done",
                       answers |-> IF lastHandled'.thrown # NoError THEN 1 ELSE 0])

\* the command of the request id ends, and the handler that awaited it goes on
ExecEnds(id, outcome) ==
    /\ id \in 1..Len(requests)
    /\ requests[id].at = "exec"
    /\ ExecSettled(Position(id), outcome)
    /\ requests' = Answered(id, lastHandled')

\* the listing of the request id ends
ListEnds(id, stdout, outcome) ==
    /\ id \in 1..Len(requests)
    /\ requests[id].at = "list"
    /\ \/ ListResolved("call", stdout)
       \/ ListRejected("call", outcome)
    /\ requests' = Answered(id, lastHandled')

\* the listing of startup ends: no request awaits it
InitListEnds(stdout, outcome) ==
    /\ \/ ListResolved("init", stdout)
       \/ ListRejected("init", outcome)
    /\ UNCHANGED requests

InitRequests ==
    /\ shortcutMap = <<>>
    /\ listExec = [init |-> 1, call |-> 0]
    /\ lastList = [refreshed |-> FALSE, shortcuts |-> <<>>, repeated |-> FALSE]
    /\ initState = "listing"
    /\ CallIdle
    /\ FnIdle
    /\ GenIdle

NextRequests ==
    \/ \E name \in RequestNames, args \in RequestArgs, writeOk \in BOOLEAN :
          Receive(name, args, writeOk)
    \/ \E id \in 1..MaxRequests, outcome \in ExecOutcomes : ExecEnds(id, outcome)
    \/ \E id \in 1..MaxRequests, stdout \in BridgeStdouts, outcome \in ListFailures :
          ListEnds(id, stdout, outcome)
    \/ \E stdout \in BridgeStdouts, outcome \in ListFailures : InitListEnds(stdout, outcome)

SpecRequests == InitRequests /\ [][NextRequests]_vars

\* every command that was started ends, and its callback runs
SpecRequestsFair ==
    /\ SpecRequests
    /\ \A id \in 1..MaxRequests :
          /\ WF_vars(\E outcome \in ExecOutcomes : ExecEnds(id, outcome))
          /\ WF_vars(\E stdout \in BridgeStdouts, outcome \in ListFailures :
                        ListEnds(id, stdout, outcome))

\* C30: every tool request gets exactly one outcome, a result or a protocol
\* error, provided that the command it started (if any) ends: no request is
\* answered twice, a request that was answered is not answered again, and no
\* request stays without an answer.
C30_ExactlyOneOutcome ==
    /\ [](\A id \in 1..Len(requests) : requests[id].answers <= 1)
    /\ [][\A id \in 1..Len(requests) :
             requests[id].at = "done" => requests'[id] = requests[id]]_vars
    /\ \A id \in 1..MaxRequests :
          [](Len(requests) >= id
             => <>(/\ Len(requests) >= id
                   /\ requests[id].at = "done"
                   /\ requests[id].answers = 1))

\* three requests were answered once each, the last answer being the result
\* of a run whose command ended after the other answers were given
C30_Witness ==
    /\ Len(requests) = 3
    /\ \A id \in 1..3 : requests[id] = [at |-> "done", answers |-> 1]
    /\ lastHandled.handler = "run"
    /\ lastHandled.result.kind = "output"

====
